---- MODULE Spec2Model ----
(***************************************************************************)
(* DeimosRouter (mcp-server/src/services/deimos.ts): credential            *)
(* resolution, the routing call, the completion call and the fallback.     *)
(*                                                                         *)
(* JavaScript values are records [t, s, n]: t is the type tag, s the text  *)
(* of a string (a sequence of tokens: single characters for prompts,       *)
(* literal fragments elsewhere), n the value of a number.  Real numbers    *)
(* are counted in thousandths (0.001 is 1, 0.5 is 500, 1.0 is 1000).       *)
(***************************************************************************)
EXTENDS Integers, Sequences, FiniteSets, TLC

(* ------------------------------ bounds --------------------------------- *)

\* routeRequest calls made on one router instance in one behaviour
MaxRequests == 2

\* length of the longest prompt a caller passes
MaxPromptLen == 101

(* --------------------------- JavaScript values ------------------------- *)

Undefined == [t |-> "undefined", s |-> <<>>, n |-> 0]

Null == [t |-> "null", s |-> <<>>, n |-> 0]

Str(text) == [t |-> "string", s |-> text, n |-> 0]

Num(k) == [t |-> "number", s |-> <<>>, n |-> k]

\* ToBoolean, as used by `!x`, `a && b` and `if (x)`
Truthy(v) ==
  \/ v.t = "string" /\ v.s # <<>>
  \/ v.t = "number" /\ v.n # 0

\* the left operand of `??` is replaced exactly when it is null or undefined
Nullish(v) == v.t \in {"undefined", "null"}

Coalesce(v, dflt) == IF Nullish(v) THEN dflt ELSE v

\* `${v}` in a template literal, for the values interpolated by the router
TemplateStr(v) ==
  CASE v.t = "undefined" -> <<"undefined">>
    [] v.t = "null" -> <<"null">>
    [] v.t = "string" -> v.s
    [] OTHER -> <<"<number>">>

Min(a, b) == IF a < b THEN a ELSE b

\* a faulty substring that takes the character at `end` too
SubstringInclusive(text, start, end) ==
  SubSeq(text, start + 1, Min(end + 1, Len(text)))

\* String.prototype.substring(start, end) for 0 <= start <= end
Substring(text, start, end) == SubSeq(text, start + 1, Min(end, Len(text)))

\* an Error object: its name and its message
Err(name, message) == [name |-> name, message |-> message]

NoError == Err("none", <<>>)

\* `${error}`: Error.prototype.toString
ErrToString(e) == <<e.name, ": ">> \o e.message

(* ------------------------- program constants --------------------------- *)

\* request.prompt.substring(0, 100)
PlaceholderPrefixLen == 100

\* estimatedCost: 0.001 of a fallback response, in thousandths
FallbackCost == 1

\* confidence: 0.5 of a fallback response, in thousandths
FallbackConfidence == 500

\* result.estimated_cost ?? 0.0
DefaultCost == 0

\* result.confidence ?? 1.0, in thousandths
DefaultConfidence == 1000

\* request.costPriority ?? 0.7, in thousandths
DefaultCostPriority == 700

FallbackModel == Str(<<"gpt-3.5-turbo">>)

DefaultReasoning == Str(<<"Model selected by Deimos Router">>)

PlaceholderHead == <<"Error processing request: ">>

Ellipsis == <<"...">>

FallbackReasoningHead == <<"Fallback due to routing error: ">>

\* the three lines of the message thrown when no source yields credentials
SourceLines ==
  << "1. secrets.json file in project root\n",
     "2. DEIMOS_API_URL and DEIMOS_API_KEY environment variables\n",
     "3. secrets.json file in home directory" >>

CredentialsNotFoundMessage ==
  <<"Deimos API credentials not found. Please set up credentials via:\n">>
    \o SourceLines

CredentialsNotFound == Err("Error", CredentialsNotFoundMessage)

(* ------------------------------ inputs --------------------------------- *)

PromptChars == <<"a", "b", "c", "d", "e", "f", "g">>

\* a prompt of n characters; neighbouring characters differ
PromptText(n) == [i \in 1..n |-> PromptChars[((i - 1) % Len(PromptChars)) + 1]]

PromptLens == {0, PlaceholderPrefixLen - 1, PlaceholderPrefixLen, MaxPromptLen}

TaskTypes ==
  {"analysis", "summarization", "code_generation", "classification", "extraction"}

\* RoutingRequest
Request(taskType, prompt, context, maxTokens, temperature, costPriority) ==
  [ taskType |-> taskType, prompt |-> Str(prompt), context |-> context,
    maxTokens |-> maxTokens, temperature |-> temperature,
    costPriority |-> costPriority ]

NoRequest == Request("none", <<>>, Undefined, Undefined, Undefined, Undefined)

\* requests of a caller of routeRequest: every optional field left out,
\* every optional field given as zero or the empty string, every optional
\* field given
PlainRequests ==
  { Request("extraction", PromptText(n), Undefined, Undefined, Undefined,
            Undefined) : n \in PromptLens }

ZeroRequests ==
  { Request("code_generation", PromptText(n), Str(<<>>), Num(0), Num(0),
            Num(0)) : n \in PromptLens }

FullRequests ==
  { Request("analysis", PromptText(n), Str(<<"c", "t", "x">>), Num(2000),
            Num(300), Num(700)) : n \in PromptLens }

Requests == PlainRequests \cup ZeroRequests \cup FullRequests

\* a parameter with a default value: the default stands in for an argument
\* that is left out or undefined
DefaultParam(arg, dflt) == IF arg.t = "undefined" THEN dflt ELSE arg

\* the request routeAnalysisRequest(prompt, context, costPriority) builds
routeAnalysisRequest(prompt, context, costPriority) ==
  [ taskType |-> "analysis", prompt |-> prompt, context |-> context,
    costPriority |-> DefaultParam(costPriority, Num(700)),
    maxTokens |-> Num(2000), temperature |-> Num(300) ]

\* the request routeSummarizationRequest(prompt, context, costPriority) builds
routeSummarizationRequest(prompt, context, costPriority) ==
  [ taskType |-> "summarization", prompt |-> prompt, context |-> context,
    costPriority |-> DefaultParam(costPriority, Num(800)),
    maxTokens |-> Num(1000), temperature |-> Num(200) ]

\* a faulty routeClassificationRequest with the default of routeRequest
routeClassificationRequestCommonDefault(prompt, context, costPriority) ==
  [ taskType |-> "classification", prompt |-> prompt, context |-> context,
    costPriority |-> DefaultParam(costPriority, Num(DefaultCostPriority)),
    maxTokens |-> Num(500), temperature |-> Num(100) ]

\* the request routeClassificationRequest(prompt, context, costPriority) builds
routeClassificationRequest(prompt, context, costPriority) ==
  [ taskType |-> "classification", prompt |-> prompt, context |-> context,
    costPriority |-> DefaultParam(costPriority, Num(900)),
    maxTokens |-> Num(500), temperature |-> Num(100) ]

Wrappers ==
  {"routeAnalysisRequest", "routeSummarizationRequest",
   "routeClassificationRequest"}

\* a call of an exported function: its name and its arguments
Call(fn, prompt, context, costPriority) ==
  [fn |-> fn, prompt |-> prompt, context |-> context,
   costPriority |-> costPriority]

NoCall == Call("none", Str(<<>>), Undefined, Undefined)

\* calls of the wrappers: with and without context, costPriority left out,
\* zero, or one half
WrapperCalls ==
  { Call(fn, Str(PromptText(3)), c, p) :
      fn \in Wrappers, c \in {Undefined, Str(<<"c", "t", "x">>)},
      p \in {Undefined, Num(0), Num(500)} }

CoreWrapperCalls ==
  { Call(fn, Str(PromptText(3)), Undefined, Undefined) : fn \in Wrappers }

\* a secrets.json file: missing or unreadable, not JSON, or a JSON object
SecretsFile(kind, url, key) == [kind |-> kind, api_url |-> url, api_key |-> key]

SecretsFiles(src) ==
  { SecretsFile("absent", Undefined, Undefined),
    SecretsFile("invalid", Undefined, Undefined),
    SecretsFile("object", Str(<<src, "-url">>), Str(<<src, "-key">>)),
    SecretsFile("object", Str(<<src, "-url">>), Undefined),
    SecretsFile("object", Undefined, Undefined) }

EnvValues(name) == {Undefined, Str(<<"env-", name>>)}

Loaders == {"ctor", "req"}

(* ------------------------------- state --------------------------------- *)

VARIABLES
  projectSecrets,  \* secrets.json in process.cwd()
  homeSecrets,     \* secrets.json in homedir()
  envUrl,          \* process.env.DEIMOS_API_URL
  envKey,          \* process.env.DEIMOS_API_KEY
  apiUrl,          \* this.apiUrl
  apiKey,          \* this.apiKey
  ldr,             \* where each running loadCredentials() stands
  loaded,          \* what each loadCredentials() left behind when it ended
  loadRuns,        \* number of loadCredentials() runs started
  unhandled,       \* a rejected promise nobody handles
  nCalls,          \* number of routeRequest calls started
  pc,              \* where the routeRequest call stands
  request,         \* its argument
  fetches,         \* the fetch() calls it has issued, in order
  replies,         \* what each of them settled with, in order
  routeResult,     \* `result`, the decoded body of the routing response
  caught,          \* `error` of the catch block of routeRequest
  result,          \* the RoutingResponse it returned
  thrown,          \* the error it rejected with
  entry,           \* the exported function the caller entered through
  rule             \* the Rule Engine: its last request and its decision

envVars == <<projectSecrets, homeSecrets, envUrl, envKey>>

credVars == <<apiUrl, apiKey>>

loadVars == <<ldr, loaded, loadRuns, unhandled>>

callVars ==
  <<nCalls, pc, request, fetches, replies, routeResult, caught, result, thrown>>

vars == <<envVars, credVars, loadVars, callVars, entry, rule>>

(* ------------------------ credential resolution ------------------------ *)

\* readFile() and JSON.parse() both succeed and the fields can be read
Readable(file) == file.kind = "object"

\* how a run of loadCredentials() stands or ended: the values it assigned
\* last, the source it returned from, the error it threw
LoadResult(status, url, key, via, error) ==
  [status |-> status, url |-> url, key |-> key, via |-> via, error |-> error]

NotLoaded == LoadResult("none", Undefined, Undefined, "none", NoError)

\* loadCredentials() from the first readFile() settling up to its return or
\* to the second readFile(): sources 1 and 2
ProjectAndEnvStep(file, eUrl, eKey) ==
  IF Readable(file)
    THEN LoadResult("resolved", file.api_url, file.api_key, "project", NoError)
    ELSE IF Truthy(eUrl) /\ Truthy(eKey)
      THEN LoadResult("resolved", eUrl, eKey, "env", NoError)
      ELSE LoadResult("readHome", eUrl, eKey, "none", NoError)

\* a faulty loadCredentials() that returns where it should throw
HomeStepWithoutThrow(file, curUrl, curKey) ==
  IF Readable(file)
    THEN LoadResult("resolved", file.api_url, file.api_key, "home", NoError)
    ELSE LoadResult("resolved", curUrl, curKey, "none", NoError)

\* loadCredentials() from the second readFile() settling to its end: source 3
HomeStep(file, curUrl, curKey) ==
  IF Readable(file)
    THEN LoadResult("resolved", file.api_url, file.api_key, "home", NoError)
    ELSE LoadResult("rejected", curUrl, curKey, "none", CredentialsNotFound)

(* ---------------------------- outbound calls --------------------------- *)

\* the body of POST {api_url}/route
RoutePayload(req) ==
  [ task_type |-> req.taskType,
    prompt |-> req.prompt,
    context |-> req.context,
    cost_priority |-> Coalesce(req.costPriority, Num(DefaultCostPriority)),
    max_tokens |-> req.maxTokens,
    temperature |-> req.temperature ]

\* a faulty executeLLMCall that tests the temperature the way it tests
\* maxTokens
LLMPayloadTruthyTemperature(model, prompt, context, maxTokens, temperature) ==
  [ model |-> model,
    content |-> IF Truthy(context)
                  THEN Str(<<"Context: ">> \o context.s \o <<"\n\nTask: ">>
                           \o prompt.s)
                  ELSE prompt,
    max_tokens |-> IF Truthy(maxTokens) THEN maxTokens ELSE Undefined,
    temperature |-> IF Truthy(temperature) THEN temperature ELSE Undefined ]

\* the body of POST {api_url}/chat/completions; a field that is not set on
\* llmPayload is Undefined here
LLMPayload(model, prompt, context, maxTokens, temperature) ==
  [ model |-> model,
    content |-> IF Truthy(context)
                  THEN Str(<<"Context: ">> \o context.s \o <<"\n\nTask: ">>
                           \o prompt.s)
                  ELSE prompt,
    max_tokens |-> IF Truthy(maxTokens) THEN maxTokens ELSE Undefined,
    temperature |-> IF temperature.t # "undefined" THEN temperature
                                                  ELSE Undefined ]

\* one fetch(): the method that issued it, the credentials it was built
\* from, its URL, its Authorization header and its body
Fetch(endpoint, origin, url, key, body) ==
  [ endpoint |-> endpoint, origin |-> origin, apiUrl |-> url, apiKey |-> key,
    url |-> TemplateStr(url) \o <<endpoint>>,
    authorization |-> <<"Bearer ">> \o TemplateStr(key),
    body |-> body ]

RouteFetch(req, url, key) ==
  Fetch("/route", "routeRequest", url, key, RoutePayload(req))

\* the fetch() of executeLLMCall, called by origin
LLMFetch(origin, model, req, url, key) ==
  Fetch("/chat/completions", origin, url, key,
        LLMPayload(model, req.prompt, req.context, req.maxTokens,
                   req.temperature))

\* fetch() can reach a server only at an absolute URL
Reachable(f) == Truthy(f.apiUrl)

(* --------------------------- remote responses -------------------------- *)

Reply(kind, status, text, json, body) ==
  [kind |-> kind, status |-> status, text |-> text, json |-> json, body |-> body]

RouteBody(model, cost, confidence, reasoning) ==
  [ selected_model |-> model, estimated_cost |-> cost,
    confidence |-> confidence, reasoning |-> reasoning ]

NoBody == RouteBody(Undefined, Undefined, Undefined, Undefined)

\* a faulty routeRequest that leaves the error body out of the error
RouteErrorWithoutBody(reply) ==
  CASE reply.kind = "neterr" -> Err("TypeError", <<"fetch failed">>)
    [] reply.kind = "status" ->
         Err("Error", <<"Deimos API error ", reply.status>>)
    [] reply.json = "invalid" ->
         Err("SyntaxError", <<"Unexpected token in JSON">>)
    [] reply.json = "null" ->
         Err("TypeError", <<"Cannot read properties of null">>)
    [] OTHER -> NoError

\* the error a response of the routing endpoint raises in routeRequest
RouteError(reply) ==
  CASE reply.kind = "neterr" -> Err("TypeError", <<"fetch failed">>)
    [] reply.kind = "status" ->
         Err("Error", <<"Deimos API error ", reply.status, ": ">> \o reply.text)
    [] reply.json = "invalid" ->
         Err("SyntaxError", <<"Unexpected token in JSON">>)
    [] reply.json = "null" ->
         Err("TypeError", <<"Cannot read properties of null">>)
    [] OTHER -> NoError

\* the error a response of the completion endpoint raises in executeLLMCall
LLMError(reply) ==
  CASE reply.kind = "neterr" -> Err("TypeError", <<"fetch failed">>)
    [] reply.kind = "status" ->
         Err("Error", <<"LLM API error ", reply.status, ": ">> \o reply.text)
    [] reply.json = "invalid" ->
         Err("SyntaxError", <<"Unexpected token in JSON">>)
    [] reply.json \in {"null", "nochoices"} ->
         Err("TypeError", <<"Cannot read properties of undefined">>)
    [] OTHER -> NoError

\* a faulty executeLLMCall that returns the content as a template string
LLMContentAsText(reply) == Str(TemplateStr(reply.body))

\* result.choices[0].message.content
LLMContent(reply) == reply.body

(* ----------------------------- responses ------------------------------- *)

RoutingResponse(model, cost, confidence, reasoning, response) ==
  [ selectedModel |-> model, estimatedCost |-> cost, confidence |-> confidence,
    reasoning |-> reasoning, response |-> response ]

NoResponse == RoutingResponse(Undefined, Undefined, Undefined, Undefined, Undefined)

\* a faulty routeRequest that executes with the default model
ModelToExecuteDefault(body) == FallbackModel

\* the model routeRequest passes to executeLLMCall
ModelToExecute(body) == body.selected_model

\* a faulty routeRequest that defaults the optional fields with `||`
SuccessResponseFalsyDefaults(body, llmResponse) ==
  RoutingResponse(body.selected_model,
                  IF Truthy(body.estimated_cost) THEN body.estimated_cost
                                                 ELSE Num(DefaultCost),
                  IF Truthy(body.confidence) THEN body.confidence
                                             ELSE Num(DefaultConfidence),
                  IF Truthy(body.reasoning) THEN body.reasoning
                                            ELSE DefaultReasoning,
                  llmResponse)

\* the return of the try block of routeRequest
SuccessResponse(body, llmResponse) ==
  RoutingResponse(body.selected_model,
                  Coalesce(body.estimated_cost, Num(DefaultCost)),
                  Coalesce(body.confidence, Num(DefaultConfidence)),
                  Coalesce(body.reasoning, DefaultReasoning),
                  llmResponse)

FallbackReasoning(error) == Str(FallbackReasoningHead \o ErrToString(error))

\* a faulty catch block that reports the confidence of the success path
FallbackResponseFullConfidence(error, fallbackResponse) ==
  RoutingResponse(FallbackModel, Num(FallbackCost), Num(DefaultConfidence),
                  FallbackReasoning(error), fallbackResponse)

\* the return of the catch block of routeRequest
FallbackResponse(error, fallbackResponse) ==
  RoutingResponse(FallbackModel, Num(FallbackCost), Num(FallbackConfidence),
                  FallbackReasoning(error), fallbackResponse)

\* the return of the catch block of fallbackRequest
Placeholder(prompt) ==
  Str(PlaceholderHead \o Substring(prompt.s, 0, PlaceholderPrefixLen) \o Ellipsis)

(* ----------------------------- Rule Engine ----------------------------- *)

\* what the Rule Engine reads of a request: its task type, the language the
\* code detection found in prompt and context ("none" when it found no
\* code), the severity and effort signals, the prompt length, the cost
\* priority
RuleInput(taskType, language, severity, effort, length, costPriority) ==
  [ taskType |-> taskType, language |-> language, severity |-> severity,
    effort |-> effort, length |-> length, costPriority |-> costPriority ]

RuleTaskTypes ==
  { "debugging", "architecture", "summarization", "classification",
    "simple_query", "analysis" }

RuleLanguages == {"none", "python", "javascript", "typescript", "rust", "go"}

Severities == {"none", "LOW", "MEDIUM", "CRITICAL"}

Efforts == {"S", "L"}

\* prompt lengths on both sides of the boundaries of the length buckets;
\* 13 is the length of 'Is this spam?'
RuleLengths == {0, 13, 299, 300, 1500, 1501}

RuleInputs ==
  { RuleInput(tt, lg, sv, ef, ln, cp) :
      tt \in RuleTaskTypes, lg \in RuleLanguages, sv \in Severities,
      ef \in Efforts, ln \in RuleLengths, cp \in {0, 900} }

\* a decision: the layer that fired, its choice, its confidence
RuleDecision(layer, choice, confidence) ==
  [layer |-> layer, choice |-> choice, confidence |-> confidence]

\* the layer did not fire
NoDecision == RuleDecision(0, "", 0)

\* Layer 1: code-pattern detection
CodeLayer(input) ==
  CASE input.language \in {"python", "rust"} ->
         RuleDecision(1, "Claude 3.5 Sonnet", 1000)
    [] input.language \in {"javascript", "typescript"} ->
         RuleDecision(1, "GPT-4o", 1000)
    [] OTHER -> NoDecision

\* a faulty Layer 2 that forces no tier
CostPriorityLayerBalancedOnly(input) == NoDecision

\* Layer 2: the cost-priority layer forces a tier on critical severity and
\* on low severity with small effort; otherwise it balances and the
\* decision is left to the layers below
CostPriorityLayer(input) ==
  CASE input.severity = "CRITICAL" -> RuleDecision(2, "high_quality", 1000)
    [] input.severity = "LOW" /\ input.effort = "S" ->
         RuleDecision(2, "low_cost", 1000)
    [] OTHER -> NoDecision

\* a faulty Layer 3 whose table has no entry
TaskLayerEmptyTable(input) == NoDecision

\* Layer 3: the task-type table
TaskLayer(input) ==
  CASE input.taskType = "debugging" -> RuleDecision(3, "openai/gpt-4o", 1000)
    [] input.taskType = "architecture" ->
         RuleDecision(3, "anthropic/claude-3-opus", 1000)
    [] input.taskType = "summarization" ->
         RuleDecision(3, "anthropic/claude-3-haiku", 1000)
    [] input.taskType = "classification" ->
         RuleDecision(3, "google/gemini-1.5-flash", 1000)
    [] input.taskType = "simple_query" ->
         RuleDecision(3, "mistral/mistral-tiny", 1000)
    [] OTHER -> NoDecision

\* Layer 4: the length-based fallback
LengthLayer(input) ==
  CASE input.length < 300 -> RuleDecision(4, "Mistral Tiny", 500)
    [] input.length >= 300 /\ input.length <= 1500 ->
         RuleDecision(4, "Claude Haiku", 500)
    [] OTHER -> RuleDecision(4, "Claude 3.5 Sonnet", 500)

\* the first layer that fires decides
SelectModel(input) ==
  IF CodeLayer(input) # NoDecision THEN CodeLayer(input)
  ELSE IF CostPriorityLayer(input) # NoDecision THEN CostPriorityLayer(input)
  ELSE IF TaskLayer(input) # NoDecision THEN TaskLayer(input)
  ELSE LengthLayer(input)

NoRule ==
  [ pc |-> "idle",
    input |-> RuleInput("none", "none", "none", "S", 0, 0),
    decision |-> NoDecision ]

(* ------------------------------ actions -------------------------------- *)

Init ==
  /\ projectSecrets \in SecretsFiles("project")
  /\ homeSecrets \in SecretsFiles("home")
  /\ envUrl \in EnvValues("url")
  /\ envKey \in EnvValues("key")
  /\ apiUrl = Undefined
  /\ apiKey = Undefined
  /\ ldr = [l \in Loaders |-> IF l = "ctor" THEN "readProject" ELSE "none"]
  /\ loaded = [l \in Loaders |-> NotLoaded]
  /\ loadRuns = 1
  /\ unhandled = FALSE
  /\ nCalls = 0
  /\ pc = "idle"
  /\ request = NoRequest
  /\ fetches = <<>>
  /\ replies = <<>>
  /\ routeResult = NoBody
  /\ caught = NoError
  /\ result = NoResponse
  /\ thrown = NoError
  /\ entry = NoCall
  /\ rule = NoRule

\* routeRequest(req) up to its first await: the credential check, then
\* either loadCredentials() up to its readFile() or the routing fetch()
RouteRequest(req) ==
  /\ pc \in {"idle", "returned", "rejected"}
  /\ nCalls < MaxRequests
  /\ nCalls' = nCalls + 1
  /\ request' = req
  /\ replies' = <<>>
  /\ routeResult' = NoBody
  /\ caught' = NoError
  /\ result' = NoResponse
  /\ thrown' = NoError
  /\ loaded' = [loaded EXCEPT !["req"] = NotLoaded]
  /\ IF ~Truthy(apiUrl) \/ ~Truthy(apiKey)
       THEN /\ ldr' = [ldr EXCEPT !["req"] = "readProject"]
            /\ loadRuns' = loadRuns + 1
            /\ pc' = "awaitLoad"
            /\ fetches' = <<>>
       ELSE /\ ldr' = [ldr EXCEPT !["req"] = "none"]
            /\ loadRuns' = loadRuns
            /\ pc' = "awaitRoute"
            /\ fetches' = <<RouteFetch(req, apiUrl, apiKey)>>
  /\ UNCHANGED <<envVars, credVars, unhandled>>

\* a caller that holds the router calls routeRequest(req)
CallRouteRequest(req) ==
  /\ entry.fn \in {"none", "routeRequest"}
  /\ entry' = Call("routeRequest", req.prompt, req.context, req.costPriority)
  /\ UNCHANGED rule
  /\ RouteRequest(req)

\* a caller calls a wrapper: `new DeimosRouter()` and routeRequest() on the
\* request the wrapper builds, in one synchronous run; the router stays
\* private to the wrapper
CallWrapper(call) ==
  /\ entry.fn = "none"
  /\ nCalls = 0
  /\ ldr["ctor"] = "readProject"
  /\ entry' = call
  /\ UNCHANGED rule
  /\ RouteRequest(
       CASE call.fn = "routeAnalysisRequest" ->
              routeAnalysisRequest(call.prompt, call.context, call.costPriority)
         [] call.fn = "routeSummarizationRequest" ->
              routeSummarizationRequest(call.prompt, call.context,
                                        call.costPriority)
         [] call.fn = "routeClassificationRequest" ->
              routeClassificationRequest(call.prompt, call.context,
                                         call.costPriority))

\* routeRequest resumes when the loadCredentials() it awaits has ended with
\* r: it issues the routing fetch(), or rejects with the error of the load
ResumeAfterLoad(r) ==
  /\ pc' = CASE r.status = "resolved" -> "awaitRoute"
             [] r.status = "rejected" -> "rejected"
             [] OTHER -> pc
  /\ fetches' = IF r.status = "resolved"
                  THEN <<RouteFetch(request, r.url, r.key)>>
                  ELSE fetches
  /\ thrown' = IF r.status = "rejected" THEN r.error ELSE thrown
  /\ UNCHANGED <<nCalls, request, replies, routeResult, caught, result>>

\* a run l of loadCredentials() takes the step that ends with r
LoadStep(l, r) ==
  /\ apiUrl' = r.url
  /\ apiKey' = r.key
  /\ ldr' = [ldr EXCEPT ![l] = r.status]
  /\ loaded' = [loaded EXCEPT
                  ![l] = IF r.status \in {"resolved", "rejected"} THEN r ELSE @]
  /\ unhandled' = (unhandled \/ (l = "ctor" /\ r.status = "rejected"))
  /\ loadRuns' = loadRuns
  /\ IF l = "req" THEN ResumeAfterLoad(r) ELSE UNCHANGED callVars
  /\ UNCHANGED <<envVars, entry, rule>>

\* the readFile() of the project secrets settles
LoadProjectSettles(l) ==
  /\ ldr[l] = "readProject"
  /\ LoadStep(l, ProjectAndEnvStep(projectSecrets, envUrl, envKey))

\* the readFile() of the home secrets settles
LoadHomeSettles(l) ==
  /\ ldr[l] = "readHome"
  /\ LoadStep(l, HomeStep(homeSecrets, apiUrl, apiKey))

\* a faulty catch block that asks the routing endpoint again before the
\* fetch() of fallbackRequest
EnterFallbackRetryingRoute(error) ==
  /\ caught' = error
  /\ routeResult' = NoBody
  /\ fetches' = Append(Append(fetches, RouteFetch(request, apiUrl, apiKey)),
                       LLMFetch("fallbackRequest", FallbackModel, request,
                                apiUrl, apiKey))
  /\ pc' = "awaitFallback"
  /\ UNCHANGED <<result, thrown>>

\* the catch block of routeRequest up to the fetch() of fallbackRequest
EnterFallback(error) ==
  /\ caught' = error
  /\ routeResult' = NoBody
  /\ fetches' = Append(fetches, LLMFetch("fallbackRequest", FallbackModel, request, apiUrl, apiKey))
  /\ pc' = "awaitFallback"
  /\ UNCHANGED <<result, thrown>>

\* the routing fetch() settles with reply; routeRequest runs up to the
\* fetch() of executeLLMCall or of fallbackRequest
RouteSettles(reply) ==
  /\ pc = "awaitRoute"
  /\ reply.kind = "neterr" \/ Reachable(fetches[Len(fetches)])
  /\ replies' = Append(replies, reply)
  /\ IF RouteError(reply) # NoError
       THEN EnterFallback(RouteError(reply))
       ELSE /\ routeResult' = reply.body
            /\ fetches' = Append(fetches,
                 LLMFetch("routeRequest", ModelToExecute(reply.body), request,
                          apiUrl, apiKey))
            /\ pc' = "awaitLLM"
            /\ UNCHANGED <<caught, result, thrown>>
  /\ UNCHANGED <<envVars, credVars, loadVars, nCalls, request, entry,
                 rule>>

\* the completion fetch() of the selected model settles with reply
LLMSettles(reply) ==
  /\ pc = "awaitLLM"
  /\ reply.kind = "neterr" \/ Reachable(fetches[Len(fetches)])
  /\ replies' = Append(replies, reply)
  /\ IF LLMError(reply) # NoError
       THEN EnterFallback(LLMError(reply))
       ELSE /\ result' = SuccessResponse(routeResult, LLMContent(reply))
            /\ pc' = "returned"
            /\ UNCHANGED <<routeResult, caught, fetches, thrown>>
  /\ UNCHANGED <<envVars, credVars, loadVars, nCalls, request, entry,
                 rule>>

\* a faulty fallbackRequest that cuts the prompt of the request it is given
FallbackSettlesCuttingPrompt(reply) ==
  /\ pc = "awaitFallback"
  /\ reply.kind = "neterr" \/ Reachable(fetches[Len(fetches)])
  /\ replies' = Append(replies, reply)
  /\ request' = [request EXCEPT
                   !.prompt = Str(Substring(request.prompt.s, 0,
                                            PlaceholderPrefixLen))]
  /\ result' = FallbackResponse(caught,
                 IF LLMError(reply) # NoError THEN Placeholder(request.prompt)
                                              ELSE LLMContent(reply))
  /\ pc' = "returned"
  /\ UNCHANGED <<envVars, credVars, loadVars, nCalls, routeResult,
                 caught, fetches, thrown, entry, rule>>

\* a faulty fallbackRequest that calls the completion endpoint again when
\* its call failed
FallbackSettlesRetrying(reply) ==
  /\ pc = "awaitFallback"
  /\ reply.kind = "neterr" \/ Reachable(fetches[Len(fetches)])
  /\ replies' = Append(replies, reply)
  /\ IF LLMError(reply) # NoError
       THEN /\ fetches' = Append(fetches,
                 LLMFetch("fallbackRequest", FallbackModel, request,
                          apiUrl, apiKey))
            /\ UNCHANGED <<pc, result>>
       ELSE /\ result' = FallbackResponse(caught, LLMContent(reply))
            /\ pc' = "returned"
            /\ UNCHANGED fetches
  /\ UNCHANGED <<envVars, credVars, loadVars, nCalls, request, routeResult,
                 caught, thrown, entry, rule>>

\* the completion fetch() of fallbackRequest settles with reply
FallbackSettles(reply) ==
  /\ pc = "awaitFallback"
  /\ reply.kind = "neterr" \/ Reachable(fetches[Len(fetches)])
  /\ replies' = Append(replies, reply)
  /\ result' = FallbackResponse(caught,
                 IF LLMError(reply) # NoError THEN Placeholder(request.prompt)
                                              ELSE LLMContent(reply))
  /\ pc' = "returned"
  /\ UNCHANGED <<envVars, credVars, loadVars, nCalls, request, routeResult,
                 caught, fetches, thrown, entry, rule>>

(* ------------------------- remote behaviours --------------------------- *)

NetworkError == Reply("neterr", "", <<>>, "", Undefined)

StatusReplies ==
  { Reply("status", st, tx, "", Undefined) :
      st \in {"500", "503"}, tx \in {<<"overloaded">>, <<>>} }

\* the responses of the routing endpoint that make the routing call fail
RouteFailures ==
  {NetworkError} \cup StatusReplies
  \cup { Reply("ok", "200", <<>>, j, NoBody) : j \in {"invalid", "null"} }

\* its 2xx responses that carry a JSON object
RouteObjects ==
  { Reply("ok", "200", <<>>, "object", RouteBody(m, c, f, r)) :
           m \in {Undefined, Str(<<>>), Str(<<"gpt-4">>)},
           c \in {Undefined, Num(0), Num(-5), Num(20)},
           f \in {Undefined, Num(0), Num(900), Num(1500)},
           r \in {Undefined, Str(<<"cheapest capable model">>)} }
  \cup
  { Reply("ok", "200", <<>>, "object", RouteBody(Str(<<"gpt-4">>), c, f, r)) :
           c \in {Null, Num(0)}, f \in {Null, Num(0)},
           r \in {Null, Str(<<>>)} }

RouteReplies == RouteFailures \cup RouteObjects

LLMReplies ==
  {NetworkError} \cup StatusReplies
  \cup { Reply("ok", "200", <<>>, j, Undefined) : j \in {"invalid", "nochoices"} }
  \cup { Reply("ok", "200", <<>>, "content", c) :
           c \in {Str(<<"a", "n", "s", "w", "e", "r">>), Str(<<>>), Undefined, Null} }

\* the replies met when the claim at hand is about credential resolution or
\* about the order of the calls: one of each kind
CoreRouteReplies ==
  { NetworkError,
    Reply("status", "500", <<"overloaded">>, "", Undefined),
    Reply("ok", "200", <<>>, "invalid", NoBody),
    Reply("ok", "200", <<>>, "object",
          RouteBody(Str(<<"gpt-4">>), Num(20), Num(900), Undefined)),
    Reply("ok", "200", <<>>, "object", NoBody) }

CoreLLMReplies ==
  { NetworkError,
    Reply("status", "503", <<>>, "", Undefined),
    Reply("ok", "200", <<>>, "content", Str(<<"a", "n", "s", "w", "e", "r">>)),
    Reply("ok", "200", <<>>, "content", Undefined) }

CoreRequests ==
  { Request("extraction", PromptText(3), Undefined, Undefined, Undefined,
            Undefined),
    Request("analysis", PromptText(MaxPromptLen), Str(<<"c", "t", "x">>),
            Num(2000), Num(300), Num(700)) }

\* one step of the router, its caller, the file system or a remote endpoint
Step(requests, wrapperCalls, routeReplies, llmReplies) ==
  \/ \E req \in requests : CallRouteRequest(req)
  \/ \E call \in wrapperCalls : CallWrapper(call)
  \/ \E l \in Loaders : LoadProjectSettles(l)
  \/ \E l \in Loaders : LoadHomeSettles(l)
  \/ \E reply \in routeReplies : RouteSettles(reply)
  \/ \E reply \in llmReplies : LLMSettles(reply)
  \/ \E reply \in llmReplies : FallbackSettles(reply)

\* every environment of credentials, the core requests and replies
Next == Step(CoreRequests, CoreWrapperCalls, CoreRouteReplies, CoreLLMReplies)

Spec == Init /\ [][Next]_vars

\* every readFile() and every fetch() that was started settles
Settling ==
  /\ \A l \in Loaders : WF_vars(LoadProjectSettles(l))
  /\ \A l \in Loaders : WF_vars(LoadHomeSettles(l))
  /\ WF_vars(\E reply \in CoreRouteReplies : RouteSettles(reply))
  /\ WF_vars(\E reply \in CoreLLMReplies : LLMSettles(reply))
  /\ WF_vars(\E reply \in CoreLLMReplies : FallbackSettles(reply))

\* the router of Spec when whatever was started settles
SpecSettling == Spec /\ Settling

\* the environments in which every step of the resolution happens
InitFewSources ==
  /\ Init
  /\ envUrl = Undefined
  /\ envKey = Undefined
  /\ projectSecrets.kind = "object" => Truthy(projectSecrets.api_key)
  /\ projectSecrets.kind # "invalid"
  /\ homeSecrets.kind \in {"absent", "object"}
  /\ homeSecrets.kind = "object" => Truthy(homeSecrets.api_key)
  /\ projectSecrets.kind = "object" => homeSecrets.kind = "absent"

\* few environments of credentials, every response of the routing endpoint
NextAllRoutings ==
  Step(CoreRequests, CoreWrapperCalls, RouteReplies, CoreLLMReplies)

SpecAllRoutings == InitFewSources /\ [][NextAllRoutings]_vars

\* few environments of credentials, every request, every failure of the
\* routing call and every response of the completion endpoint
NextAllCompletions ==
  Step(Requests, WrapperCalls, RouteFailures \cup CoreRouteReplies, LLMReplies)

SpecAllCompletions == InitFewSources /\ [][NextAllCompletions]_vars

\* the Rule Engine decides a request; it is a pure function, one call shows
\* all it does for an input
Classify(input) ==
  /\ rule.pc = "idle"
  /\ rule' = [pc |-> "decided", input |-> input, decision |-> SelectModel(input)]
  /\ UNCHANGED <<envVars, credVars, loadVars, callVars, entry>>

\* a router without credentials that is never called
InitRuleEngine ==
  /\ Init
  /\ projectSecrets.kind = "absent"
  /\ homeSecrets.kind = "absent"
  /\ envUrl = Undefined
  /\ envKey = Undefined

NextRuleEngine == \E input \in RuleInputs : Classify(input)

\* the Rule Engine alone, on every request
SpecRuleEngine == InitRuleEngine /\ [][NextRuleEngine]_vars

(* ------------------------------ properties ----------------------------- *)

\* the call has ended, by returning a response or by rejecting
Completed == pc \in {"returned", "rejected"}

FetchesTo(endpoint) == {i \in 1..Len(fetches) : fetches[i].endpoint = endpoint}

FetchesBy(origin) ==
  {i \in 1..Len(fetches) :
     fetches[i].endpoint = "/chat/completions" /\ fetches[i].origin = origin}

\* the routing call did not deliver a decision
RoutingFailed(reply) == reply.kind # "ok" \/ reply.json # "object"

\* the completion call did not deliver a content
CompletionFailed(reply) == reply.kind # "ok" \/ reply.json # "content"

\* the credential resolution the call awaited ended with an error
ResolutionFailed == loaded["req"].status = "rejected"

\* the routing call of the request failed
RoutingCallFailed == Len(replies) >= 1 /\ RoutingFailed(replies[1])

\* the completion call with the selected model failed
FirstCompletionFailed ==
  /\ Len(replies) >= 2
  /\ fetches[2].origin = "routeRequest"
  /\ CompletionFailed(replies[2])

\* the completion call of the fallback failed
FallbackCompletionFailed ==
  /\ Len(replies) = Len(fetches)
  /\ Len(fetches) >= 2
  /\ fetches[Len(fetches)].origin = "fallbackRequest"
  /\ CompletionFailed(replies[Len(replies)])

\* part occurs in text as a contiguous run of tokens
Contains(text, part) ==
  \E i \in 0..(Len(text) - Len(part)) : SubSeq(text, i + 1, i + Len(part)) = part

\* C1: routeRequest never ends by rejecting: whatever the credential sources
\* hold and whatever the routing and completion calls do, the call ends by
\* returning a RoutingResponse.
C1_NeverRejects == pc # "rejected"

\* C2: when a request has ended and any of its stages failed (credential
\* resolution, the routing call, the first completion call), exactly one
\* completion call was made by the fallback, with the model gpt-3.5-turbo
\* and the prompt, context, maxTokens and temperature of the request.
C2_ExactlyOneFallback ==
  (Completed /\ (ResolutionFailed \/ RoutingCallFailed \/ FirstCompletionFailed))
    => /\ Cardinality(FetchesBy("fallbackRequest")) = 1
       /\ \A i \in FetchesBy("fallbackRequest") :
            fetches[i].body =
              LLMPayload(Str(<<"gpt-3.5-turbo">>), request.prompt,
                         request.context, request.maxTokens,
                         request.temperature)

\* C3: every response routeRequest returns has a non-empty string as
\* selectedModel and a string as response.
C3_ModelAndResponseAreStrings ==
  pc = "returned" =>
    /\ result.selectedModel.t = "string"
    /\ result.selectedModel.s # <<>>
    /\ result.response.t = "string"

\* C4: when the completion call failed for the selected model and for the
\* fallback model, the response text is "Error processing request: ", then
\* the first min(100, length) characters of the prompt, then "...".
C4_PlaceholderEchoesPrefix ==
  (pc = "returned" /\ FirstCompletionFailed /\ FallbackCompletionFailed) =>
    LET p == request.prompt.s
        k == IF Len(p) < 100 THEN Len(p) ELSE 100
        r == result.response
    IN  /\ r.t = "string"
        /\ Len(r.s) = k + 2
        /\ r.s[1] = "Error processing request: "
        /\ r.s[k + 2] = "..."
        /\ \A i \in 1..k : r.s[i + 1] = p[i]

\* C4 happens: both completion calls failed for a prompt longer than 100
\* characters, and the placeholder carries 100 of them.
C4_Witness ==
  /\ pc = "returned" /\ FirstCompletionFailed /\ FallbackCompletionFailed
  /\ Len(request.prompt.s) > 100
  /\ Len(result.response.s) = 102

\* the error that sent the request to the fallback
TriggeringError ==
  IF RoutingCallFailed THEN RouteError(replies[1]) ELSE LLMError(replies[2])

\* C5: a response returned after the fallback ran has selectedModel
\* gpt-3.5-turbo, estimatedCost 0.001, confidence 0.5 and a reasoning that
\* contains the message of the error that triggered the fallback, whether
\* the fallback completion succeeded or the placeholder was produced.
C5_FallbackDecisionIsFixed ==
  (pc = "returned" /\ FetchesBy("fallbackRequest") # {}) =>
    /\ result.selectedModel = Str(<<"gpt-3.5-turbo">>)
    /\ result.estimatedCost = Num(1)
    /\ result.confidence = Num(500)
    /\ result.reasoning.t = "string"
    /\ TriggeringError # NoError
    /\ Contains(result.reasoning.s, TriggeringError.message)

\* C5 happens: the first completion call failed with a status and the
\* fallback completion succeeded.
C5_Witness ==
  /\ pc = "returned"
  /\ FirstCompletionFailed
  /\ replies[2].kind = "status"
  /\ ~FallbackCompletionFailed
  /\ Contains(result.reasoning.s, <<"LLM API error ", replies[2].status>>)

\* C6 as stated: a request that has ended has called the routing endpoint
\* exactly once.
C6_ExactlyOneRoutingCall == Completed => Cardinality(FetchesTo("/route")) = 1

\* C6 amended: the routing endpoint is called at most once per request;
\* exactly once in every request that got past credential resolution, also
\* after the routing call or a completion call failed and the fallback ran;
\* and not at all in a request that credential resolution made reject.
C6_AtMostOneRoutingCall ==
  /\ Cardinality(FetchesTo("/route")) <= 1
  /\ pc \in {"awaitRoute", "awaitLLM", "awaitFallback", "returned"}
       => Cardinality(FetchesTo("/route")) = 1
  /\ pc \in {"awaitLoad", "rejected"} => FetchesTo("/route") = {}

\* C6 happens: the routing call succeeded, the first completion call failed,
\* the fallback ran and the request returned after one routing call.
C6_Witness ==
  /\ pc = "returned"
  /\ ~RoutingCallFailed
  /\ FirstCompletionFailed
  /\ FetchesBy("fallbackRequest") # {}
  /\ Cardinality(FetchesTo("/route")) = 1

\* the routing endpoint answered with a non-success status
RoutingStatusFailed == Len(replies) >= 1 /\ replies[1].kind = "status"

\* the decision of a response: everything but the generated text
Decision(r) == <<r.selectedModel, r.estimatedCost, r.confidence, r.reasoning>>

FileYields(file) ==
  file.kind = "object" /\ Truthy(file.api_url) /\ Truthy(file.api_key)

EnvYields == Truthy(envUrl) /\ Truthy(envKey)

\* the first source, in the order project file, environment, home file,
\* that yields credentials
FirstYieldingSource ==
  CASE FileYields(projectSecrets) -> "project"
    [] EnvYields -> "env"
    [] FileYields(homeSecrets) -> "home"
    [] OTHER -> "none"

\* C8: a run of credential resolution that has ended succeeded exactly when
\* some source yields both a URL and a key, and then it returned from the
\* first such source in the order project file, environment, home file.
C8_FirstYieldingSourceWins ==
  \A l \in Loaders :
    loaded[l].status # "none" =>
      /\ loaded[l].status = "resolved" <=> FirstYieldingSource # "none"
      /\ loaded[l].status = "resolved" => loaded[l].via = FirstYieldingSource

\* C9: when both secrets files are absent and the two environment variables
\* are not both set, a run of credential resolution that has ended has
\* failed, with an error whose message names the three sources.
C9_NoSourceMeansCredentialsNotFound ==
  ( /\ projectSecrets.kind = "absent"
    /\ homeSecrets.kind = "absent"
    /\ ~(Truthy(envUrl) /\ Truthy(envKey)) ) =>
    \A l \in Loaders :
      loaded[l].status # "none" =>
        /\ loaded[l].status = "rejected"
        /\ Contains(loaded[l].error.message,
                    <<"1. secrets.json file in project root\n">>)
        /\ Contains(loaded[l].error.message,
                    <<"2. DEIMOS_API_URL and DEIMOS_API_KEY environment variables\n">>)
        /\ Contains(loaded[l].error.message,
                    <<"3. secrets.json file in home directory">>)

\* C9 happens: no file, only one environment variable, and the resolution
\* started by a request has ended.
C9_Witness ==
  /\ projectSecrets.kind = "absent"
  /\ homeSecrets.kind = "absent"
  /\ Truthy(envUrl) /\ ~Truthy(envKey)
  /\ loaded["req"].status = "rejected"

\* C10: as long as no resolution has failed, credential resolution has run
\* at most once; the one started by the constructor and the one started by
\* the first routeRequest do not both run.
C10_ResolvedAtMostOnce ==
  (\A l \in Loaders : loaded[l].status # "rejected") => loadRuns <= 1

\* C11 as stated: in every completion call max_tokens is sent exactly when
\* the request has a maxTokens and temperature exactly when it has a
\* temperature, a zero included.
C11_OptionalFieldsSentWhenProvided ==
  \A i \in FetchesTo("/chat/completions") :
    /\ fetches[i].body.max_tokens = request.maxTokens
    /\ fetches[i].body.temperature = request.temperature

\* C11 amended: temperature is sent exactly when the request has one, a zero
\* included; max_tokens is sent exactly when the request has a maxTokens
\* that is not zero: a maxTokens of 0 is left out like a missing one.
C11_ZeroMaxTokensIsLeftOut ==
  \A i \in FetchesTo("/chat/completions") :
    /\ fetches[i].body.temperature = request.temperature
    /\ fetches[i].body.max_tokens =
         IF request.maxTokens.t = "number" /\ request.maxTokens.n # 0
           THEN request.maxTokens
           ELSE [t |-> "undefined", s |-> <<>>, n |-> 0]

\* C11 happens: a completion call for a request whose maxTokens and
\* temperature are both zero sends the temperature and no max_tokens.
C11_Witness ==
  /\ request.maxTokens = Num(0)
  /\ request.temperature = Num(0)
  /\ \E i \in FetchesTo("/chat/completions") :
       /\ fetches[i].body.temperature = Num(0)
       /\ fetches[i].body.max_tokens.t = "undefined"

\* C12: the calls of one request are issued in the order routing call,
\* completion call, fallback completion call, and none before the
\* credential resolution the request awaits has ended; the first completion
\* call follows a routing call that succeeded and names the model that call
\* returned; the fallback call follows a call that failed; and when the
\* routing call and the first completion call both succeeded no fallback
\* call was made and the response carries the remote decision.
C12_StagesInOrder ==
  /\ pc = "awaitLoad" => fetches = <<>>
  /\ \A i \in 1..Len(fetches) :
       (fetches[i].endpoint = "/route") <=> (i = 1)
  /\ \A i \in FetchesBy("routeRequest") :
       /\ i = 2
       /\ ~RoutingFailed(replies[1])
       /\ fetches[i].body.model = replies[1].body.selected_model
  /\ \A i \in FetchesBy("fallbackRequest") :
       \/ i = 2 /\ RoutingFailed(replies[1])
       \/ i = 3 /\ fetches[2].origin = "routeRequest"
                /\ CompletionFailed(replies[2])
  /\ (pc = "returned" /\ ~RoutingCallFailed /\ ~FirstCompletionFailed) =>
       /\ FetchesBy("fallbackRequest") = {}
       /\ Len(fetches) = 2
       /\ result.selectedModel = replies[1].body.selected_model
       /\ ~Nullish(replies[1].body.estimated_cost)
            => result.estimatedCost = replies[1].body.estimated_cost
       /\ ~Nullish(replies[1].body.confidence)
            => result.confidence = replies[1].body.confidence
       /\ ~Nullish(replies[1].body.reasoning)
            => result.reasoning = replies[1].body.reasoning

\* C12 happens: credentials were resolved for the request, the routing call
\* returned gpt-4, the completion call with gpt-4 succeeded and the response
\* carries that decision.
C12_Witness ==
  /\ pc = "returned"
  /\ loaded["req"].status = "resolved"
  /\ Len(fetches) = 2
  /\ fetches[2].body.model = Str(<<"gpt-4">>)
  /\ result.selectedModel = Str(<<"gpt-4">>)
  /\ result.confidence = Num(900)

\* C13: every response routeRequest returns has a confidence between 0 and 1
\* (0 and 1000 thousandths) and an estimated cost that is not negative,
\* whatever the routing endpoint answered.
C13_ConfidenceAndCostInRange ==
  pc = "returned" =>
    /\ result.confidence.t = "number"
    /\ result.confidence.n >= 0
    /\ result.confidence.n <= 1000
    /\ result.estimatedCost.t = "number"
    /\ result.estimatedCost.n >= 0

\* C14: no failure of an asynchronous operation the router started is left
\* without a handler; the credential resolution the constructor started never
\* ends as an unhandled promise rejection.
C14_NoUnhandledRejection == ~unhandled

\* C18: a 2xx routing response without selected_model is a routing failure:
\* every completion call routeRequest itself issues names a model, and a
\* request whose routing response lacked the model is answered by the
\* fallback path.
C18_MissingModelIsRoutingFailure ==
  /\ \A i \in FetchesBy("routeRequest") :
       fetches[i].body.model.t = "string"
  /\ ( /\ pc = "returned"
       /\ Len(replies) >= 1
       /\ replies[1].kind = "ok"
       /\ replies[1].json = "object"
       /\ replies[1].body.selected_model.t = "undefined" ) =>
       /\ FetchesBy("routeRequest") = {}
       /\ FetchesBy("fallbackRequest") # {}
       /\ result.selectedModel = [t |-> "string", s |-> <<"gpt-3.5-turbo">>, n |-> 0]

\* C19: no call to the routing endpoint or to the completion endpoint is
\* issued while apiUrl or apiKey is unset, and from the credential check of a
\* request to its return both values stay set, whatever the runs of
\* loadCredentials() do meanwhile.
C19_CallsOnlyWithCredentials ==
  /\ \A i \in 1..Len(fetches) :
       /\ fetches[i].apiUrl.t = "string" /\ fetches[i].apiUrl.s # <<>>
       /\ fetches[i].apiKey.t = "string" /\ fetches[i].apiKey.s # <<>>
  /\ pc \in {"awaitRoute", "awaitLLM", "awaitFallback"} =>
       /\ apiUrl.t = "string" /\ apiUrl.s # <<>>
       /\ apiKey.t = "string" /\ apiKey.s # <<>>

\* C20: a run of loadCredentials() that succeeded left apiUrl and apiKey both
\* set, with values of one source; a run that failed left both unset.
C20_CompletedRunLeavesConsistentPair ==
  \A l \in Loaders :
    /\ loaded[l].status = "resolved" =>
         /\ loaded[l].url.t = "string"
         /\ loaded[l].key.t = "string"
         /\ loaded[l].url.s[1] = loaded[l].key.s[1]
    /\ loaded[l].status = "rejected" =>
         /\ loaded[l].url.t = "undefined"
         /\ loaded[l].key.t = "undefined"

\* C15: a request built by a wrapper has the task type, token limit and
\* temperature of that wrapper, the prompt and context of the caller, and
\* as cost priority the caller's value or, when the caller gave none, the
\* wrapper's default (0.7, 0.8, 0.9 for analysis, summarization,
\* classification); the routing call sends the cost priority of the request,
\* or 0.7 when the request has none.
C15_WrapperPresets ==
  /\ entry.fn \in {"routeAnalysisRequest", "routeSummarizationRequest",
                   "routeClassificationRequest"} =>
       LET preset ==
             CASE entry.fn = "routeAnalysisRequest" ->
                    <<"analysis", 2000, 300, 700>>
               [] entry.fn = "routeSummarizationRequest" ->
                    <<"summarization", 1000, 200, 800>>
               [] entry.fn = "routeClassificationRequest" ->
                    <<"classification", 500, 100, 900>>
       IN /\ request.taskType = preset[1]
          /\ request.maxTokens = [t |-> "number", s |-> <<>>, n |-> preset[2]]
          /\ request.temperature = [t |-> "number", s |-> <<>>, n |-> preset[3]]
          /\ request.costPriority =
               IF entry.costPriority.t = "undefined"
                 THEN [t |-> "number", s |-> <<>>, n |-> preset[4]]
                 ELSE entry.costPriority
          /\ request.prompt = entry.prompt
          /\ request.context = entry.context
  /\ \A i \in FetchesTo("/route") :
       fetches[i].body.cost_priority =
         IF request.costPriority.t \in {"undefined", "null"}
           THEN [t |-> "number", s |-> <<>>, n |-> 700]
           ELSE request.costPriority

\* C15 happens: routeClassificationRequest was called without a cost
\* priority and its routing call was sent with cost_priority 0.9.
C15_Witness ==
  /\ entry.fn = "routeClassificationRequest"
  /\ entry.costPriority.t = "undefined"
  /\ Len(fetches) >= 1
  /\ fetches[1].endpoint = "/route"
  /\ fetches[1].body.cost_priority.n = 900
  /\ fetches[1].body.max_tokens.n = 500

\* C16 as stated: every request with critical severity is decided by
\* Layer 2 with the high-quality tier.
C16_CriticalAlwaysHighQualityTier ==
  (rule.pc = "decided" /\ rule.input.severity = "CRITICAL") =>
    /\ rule.decision.layer = 2
    /\ rule.decision.choice = "high_quality"

\* C16 amended: a request with critical severity is never decided by the
\* task-type table or by the length bucket, whatever its length; it is
\* decided by Layer 2 with the high-quality tier unless the code detection
\* of Layer 1 found one of its languages, and then Layer 1 decides.
C16_CriticalNeverReachesLengthLayer ==
  (rule.pc = "decided" /\ rule.input.severity = "CRITICAL") =>
    /\ rule.decision.layer \in {1, 2}
    /\ rule.decision.choice
         \notin {"Mistral Tiny", "Claude Haiku"}
    /\ rule.input.language \in {"python", "javascript", "typescript", "rust"}
         => rule.decision.layer = 1
    /\ rule.input.language \notin {"python", "javascript", "typescript", "rust"}
         => /\ rule.decision.layer = 2
            /\ rule.decision.choice = "high_quality"
            /\ rule.decision.confidence = 1000

\* C16 happens: a critical request without code and with a long prompt was
\* decided by Layer 2.
C16_Witness ==
  /\ rule.pc = "decided"
  /\ rule.input.severity = "CRITICAL"
  /\ rule.input.language = "none"
  /\ rule.input.length > 1500
  /\ rule.decision.layer = 2
  /\ rule.decision.choice = "high_quality"

\* C17: a classification request with a 13-character prompt, cost priority
\* 0.9, no code detected and no severity signal gets the classification
\* model of the task-type table with confidence 1.0, not the model of the
\* short-prompt bucket with confidence 0.5.
C17_ClassificationScenario ==
  ( /\ rule.pc = "decided"
    /\ rule.input.taskType = "classification"
    /\ rule.input.length = 13
    /\ rule.input.costPriority = 900
    /\ rule.input.language = "none"
    /\ rule.input.severity = "none" ) =>
    /\ rule.decision.layer = 3
    /\ rule.decision.choice = "google/gemini-1.5-flash"
    /\ rule.decision.confidence = 1000

\* C17 happens: the scenario was decided with the classification model.
C17_Witness ==
  /\ rule.pc = "decided"
  /\ rule.input.taskType = "classification"
  /\ rule.input.length = 13
  /\ rule.input.costPriority = 900
  /\ rule.input.language = "none"
  /\ rule.input.severity = "none"
  /\ rule.decision.choice = "google/gemini-1.5-flash"

\* C21: when every file read and every network call that was started
\* settles, every call of routeRequest completes; a call makes at most one
\* routing call and at most two completion calls.
C21_EveryCallCompletes ==
  /\ [](/\ Cardinality(FetchesTo("/route")) <= 1
        /\ Cardinality(FetchesTo("/chat/completions")) <= 2
        /\ Len(fetches) <= 3)
  /\ (pc \in {"awaitLoad", "awaitRoute", "awaitLLM", "awaitFallback"})
       ~> (pc \in {"returned", "rejected"})

\* C21 happens: a call that made one routing call and two completion calls,
\* both failed, has returned.
C21_Witness ==
  /\ pc = "returned"
  /\ Len(fetches) = 3
  /\ Len(replies) = 3
  /\ replies[2].kind # "ok"
  /\ replies[3].kind # "ok"

\* C22: a response of the success path carries the content of the completion
\* as it arrived and names the model the completion call was made with; a
\* response of the fallback path whose fallback completion succeeded carries
\* the content of that completion and names gpt-3.5-turbo, the model that
\* call was made with.
C22_ResponseIsCompletionContent ==
  pc = "returned" =>
    LET last == Len(fetches) IN
    /\ (fetches[last].origin = "routeRequest" /\ replies[last].kind = "ok"
          /\ replies[last].json = "content") =>
         /\ last = 2
         /\ result.response = replies[last].body
         /\ result.selectedModel = fetches[last].body.model
         /\ result.selectedModel = replies[1].body.selected_model
    /\ (fetches[last].origin = "fallbackRequest" /\ replies[last].kind = "ok"
          /\ replies[last].json = "content") =>
         /\ result.response = replies[last].body
         /\ result.selectedModel = fetches[last].body.model
         /\ result.selectedModel =
              [t |-> "string", s |-> <<"gpt-3.5-turbo">>, n |-> 0]

\* C22 happens: the completion with the selected model failed, the fallback
\* completion answered with a null content, and the response carries null
\* and names gpt-3.5-turbo.
C22_Witness ==
  /\ pc = "returned"
  /\ Len(fetches) = 3
  /\ fetches[3].origin = "fallbackRequest"
  /\ replies[3].kind = "ok"
  /\ replies[3].json = "content"
  /\ replies[3].body.t = "null"
  /\ result.response.t = "null"
  /\ result.selectedModel.s = <<"gpt-3.5-turbo">>

\* C23: no step of a call changes the request it was given: the request
\* changes only when the next call starts. A call that starts while apiUrl
\* and apiKey are set starts no credential resolution and leaves both as
\* they are, and so does every step in which one of its network calls
\* settles.
C23_RequestAndSetCredentialsUntouched ==
  [][ /\ (nCalls' = nCalls) => (request' = request)
      /\ ( /\ nCalls' # nCalls
           /\ apiUrl.t = "string" /\ apiUrl.s # <<>>
           /\ apiKey.t = "string" /\ apiKey.s # <<>> ) =>
           /\ apiUrl' = apiUrl
           /\ apiKey' = apiKey
           /\ loadRuns' = loadRuns
           /\ ldr' = [ldr EXCEPT !["req"] = "none"]
      /\ (replies' # replies) =>
           /\ apiUrl' = apiUrl
           /\ apiKey' = apiKey ]_vars

\* C23 happens: a call that found the credentials set has returned the
\* placeholder after three network calls; its 101-character prompt is whole
\* and the credentials are those its first call was sent with.
C23_Witness ==
  /\ pc = "returned"
  /\ loaded["req"].status = "none"
  /\ Len(fetches) = 3
  /\ replies[3].kind # "ok"
  /\ Len(request.prompt.s) = 101
  /\ apiUrl.t = "string"
  /\ apiUrl = fetches[1].apiUrl
  /\ apiKey = fetches[1].apiKey

\* C24 as stated: on the success path each optional field of the routing
\* response that is missing yields its default (0.0, 1.0, 'Model selected by
\* Deimos Router') and each field that is present is passed through
\* unchanged.
C24_PresentFieldsPassThrough ==
  (pc = "returned" /\ Len(fetches) = 2 /\ fetches[2].origin = "routeRequest") =>
    LET body == replies[1].body IN
    /\ result.estimatedCost =
         IF body.estimated_cost.t = "undefined"
           THEN [t |-> "number", s |-> <<>>, n |-> 0]
           ELSE body.estimated_cost
    /\ result.confidence =
         IF body.confidence.t = "undefined"
           THEN [t |-> "number", s |-> <<>>, n |-> 1000]
           ELSE body.confidence
    /\ result.reasoning =
         IF body.reasoning.t = "undefined"
           THEN [t |-> "string", s |-> <<"Model selected by Deimos Router">>,
                 n |-> 0]
           ELSE body.reasoning

\* C24 amended: each optional field that is missing or null yields its
\* default, independently of the others; each field with any other value, a
\* 0 or an empty text included, is passed through unchanged.
C24_MissingOrNullFieldsDefaulted ==
  (pc = "returned" /\ Len(fetches) = 2 /\ fetches[2].origin = "routeRequest") =>
    LET body == replies[1].body IN
    /\ result.estimatedCost =
         IF body.estimated_cost.t \in {"undefined", "null"}
           THEN [t |-> "number", s |-> <<>>, n |-> 0]
           ELSE body.estimated_cost
    /\ result.confidence =
         IF body.confidence.t \in {"undefined", "null"}
           THEN [t |-> "number", s |-> <<>>, n |-> 1000]
           ELSE body.confidence
    /\ result.reasoning =
         IF body.reasoning.t \in {"undefined", "null"}
           THEN [t |-> "string", s |-> <<"Model selected by Deimos Router">>,
                 n |-> 0]
           ELSE body.reasoning

\* C24 happens: the routing response had estimated_cost 0, a null confidence
\* and an empty reasoning; the response has cost 0, confidence 1.0 and the
\* empty reasoning.
C24_Witness ==
  /\ pc = "returned"
  /\ Len(fetches) = 2
  /\ fetches[2].origin = "routeRequest"
  /\ replies[1].body.estimated_cost = Num(0)
  /\ replies[1].body.confidence = Null
  /\ replies[1].body.reasoning = Str(<<>>)
  /\ result.estimatedCost = Num(0)
  /\ result.confidence = Num(1000)
  /\ result.reasoning = Str(<<>>)

====
